---- MODULE Spec2Model ----
(***************************************************************************)
(* State-machine model of yb::pggate::PgClient::Impl                      *)
(* (src/yb/yql/pggate/pg_client.cc): the session heartbeat cycle, the      *)
(* Start/Shutdown lifecycle and the business calls sent through proxy_.    *)
(*                                                                         *)
(* Threads: one lifecycle caller (Start, Shutdown), the poller's timer     *)
(* thread (Heartbeat(false)), the transport's reactor thread (heartbeat    *)
(* completion handler) and the business callers.                           *)
(***************************************************************************)
EXTENDS FiniteSets, Integers, Sequences, TLC

\* ------------------------------------------------------------------ bounds
\* Heartbeat requests sent in one run (bounds hbLog).
MaxHeartbeats == 3

\* ------------------------------------------------------- program constants
\* DEFINE_uint64(pg_client_heartbeat_interval_ms, 10000, ...)
FLAGS_pg_client_heartbeat_interval_ms == 10000
\* DECLARE_int32(yb_client_admin_operation_timeout_sec)
FLAGS_yb_client_admin_operation_timeout_sec == 120

\* ------------------------------------------------------------ input domains
\* Values RandomUniformInt<uint64_t>() may give session_id_.
SessionIds == {"sid_a", "sid_b"}
\* The session_id field of a request nobody stamped.
NoSessionId == "unset"
\* CoarseTimePoint(): the default-constructed time point.
CoarseTimePointZero == 0
\* Deadlines a caller may pass to AlterTable/CreateDatabase/CreateTable.
Deadlines == {CoarseTimePointZero, 7}
\* Threads issuing business calls.
Callers == {"c1"}

OK == "OK"
\* Statuses the transport itself reports (controller status).
TransportErrors == {"NetworkError", "TimedOut"}
\* Statuses the remote side embeds in a response.
RemoteErrors == {"AlreadyPresent", "TimedOut"}
\* Status of client::CreateTableInfoFromTableSchemaResp.
ConvertStatuses == {OK, "Corruption"}
Statuses == {OK} \cup TransportErrors \cup RemoteErrors \cup ConvertStatuses

\* A response buffer: never written, parsed without a status field, or
\* parsed with an embedded error status.
RespUnpopulated == "unpopulated"
RespNoStatus == "no_status"
RespValues == {RespUnpopulated, RespNoStatus} \cup RemoteErrors
\* What a successful round trip parses into the response buffer.
RespParsed == {RespNoStatus} \cup RemoteErrors

Ops == {"AlterTable", "CreateDatabase", "CreateTable", "OpenTable",
        "GetDatabaseInfo", "ReserveOids", "IsInitDbDone"}
\* Operations whose signature takes a CoarseTimePoint deadline.
DeadlineOps == {"AlterTable", "CreateDatabase", "CreateTable"}

FreshController == [kind |-> "none", value |-> 0]
NoOutcome == [transport |-> "none", resp |-> RespUnpopulated]
IdleHandler == [pc |-> "idle", create |-> FALSE, status |-> "none"]
IdleCall == [pc |-> "idle", op |-> "none", deadline |-> CoarseTimePointZero,
             session |-> NoSessionId, sent |-> 0, transport |-> "none",
             resp |-> RespUnpopulated, result |-> "none"]

VARIABLES
  proxy_,                   \* "null" | "live"
  controller_,              \* the call context shared by business calls
  session_id_,
  heartbeat_poller_,        \* "idle" | "armed" | "closed"
  heartbeat_running_,
  heartbeat_controller_,
  heartbeat_resp_,
  create_session_promise_,  \* "unset" or the status it was set to
  lifePc,                   \* position of the lifecycle caller
  startResult,              \* what Start() returned, "none" before
  tickPc,                   \* position of the poller's callback
  handler,                  \* position of the heartbeat completion handler
  hbInFlight,               \* heartbeat requests the transport holds
  hbLog,                    \* create flags of the heartbeats sent, in order
  createOutcome,            \* what the transport did with the creation heartbeat
  calls,                    \* position of each business caller
  crashed,                  \* "no" or why the process died
  interval_ms,              \* FLAGS_pg_client_heartbeat_interval_ms as set
  period_ms,                \* the period the poller was started with
  now,                      \* CoarseMonoClock::now(), in ms
  hbIssuedAt,               \* now() of the last PrepareHeartbeatController
  pollScheduledAt           \* when the poller last scheduled its callback

vars == <<proxy_, controller_, session_id_, heartbeat_poller_,
          heartbeat_running_, heartbeat_controller_, heartbeat_resp_,
          create_session_promise_, lifePc, startResult, tickPc, handler,
          hbInFlight, hbLog, createOutcome, calls, crashed,
          interval_ms, period_ms, now, hbIssuedAt, pollScheduledAt>>

\* The configuration and the clock, which the untimed steps leave alone.
auxVars == <<interval_ms, period_ms, now, hbIssuedAt, pollScheduledAt>>

\* ----------------------------------------------------------------- helpers
\* ResponseStatus(resp): OK unless the response carries an error status.
ResponseStatus(resp) ==
  IF resp \in {RespUnpopulated, RespNoStatus} THEN OK ELSE resp

\* SetupAdminController that sets the default timeout whatever the deadline.
SetupAdminController_AlwaysTimeout(deadline) ==
  [kind |-> "timeout", value |-> FLAGS_yb_client_admin_operation_timeout_sec]

\* SetupAdminController(controller, deadline).
SetupAdminController(deadline) ==
  IF deadline # CoarseTimePointZero
    THEN [kind |-> "deadline", value |-> deadline]
    ELSE [kind |-> "timeout",
          value |-> FLAGS_yb_client_admin_operation_timeout_sec]

\* PrepareAdminController(deadline): Reset, then SetupAdminController.
PrepareAdminController(deadline) == SetupAdminController(deadline)

\* PrepareHeartbeatController(): Reset, then a deadline of now + interval
\* (kept relative to the time of issue).
PrepareHeartbeatController ==
  [kind |-> "deadline_from_now", value |-> interval_ms]

\* The session state of the specification's data model, read off the
\* lifecycle caller's position.
SessionState ==
  CASE lifePc = "new" -> "Uninitialized"
    [] lifePc \in {"start_hb", "start_wait"} -> "CreationPending"
    [] lifePc = "started" /\ startResult = OK -> "Active"
    [] lifePc = "started" /\ startResult # OK -> "Closed"
    [] lifePc = "shutdown_release" -> "ShuttingDown"
    [] OTHER -> "Closed"

\* rpc::Poller::Start: arms the repeating callback.
PollerStart == "armed"
\* rpc::Poller::Shutdown: returns once no invocation of the callback is
\* running, and none starts afterwards.
PollerShutdownReturns == tickPc = "idle"
PollerShutdown == "closed"

\* The poller before Start(): no period.
NoPeriod == <<>>

\* A freshly constructed Impl used by `callers`, with the heartbeat
\* interval flag set to one of `intervals`.
InitWith(callers, intervals) ==
  /\ proxy_ = "null"
  /\ controller_ = FreshController
  /\ session_id_ \in SessionIds
  /\ heartbeat_poller_ = "idle"
  /\ heartbeat_running_ = FALSE
  /\ heartbeat_controller_ = FreshController
  /\ heartbeat_resp_ = RespUnpopulated
  /\ create_session_promise_ = "unset"
  /\ lifePc = "new"
  /\ startResult = "none"
  /\ tickPc = "idle"
  /\ handler = IdleHandler
  /\ hbInFlight = {}
  /\ hbLog = <<>>
  /\ createOutcome = NoOutcome
  /\ calls = [c \in callers |-> IdleCall]
  /\ crashed = "no"
  /\ interval_ms \in intervals
  /\ period_ms = NoPeriod
  /\ now = 0
  /\ hbIssuedAt = 0
  /\ pollScheduledAt = 0

Init == InitWith(Callers, {FLAGS_pg_client_heartbeat_interval_ms})

\* --------------------------------------------------------------- Heartbeat
\* Heartbeat(create), lines 80-84: build the request and hand it to the
\* transport.  proxy_-> on a null handle is undefined; the builds fault.
HeartbeatSend(create) ==
  IF proxy_ = "null"
    THEN /\ crashed' = "heartbeat_null_proxy"
         /\ UNCHANGED <<heartbeat_controller_, hbInFlight, hbLog>>
    ELSE /\ heartbeat_controller_' = PrepareHeartbeatController
         /\ hbInFlight' = hbInFlight \cup
              {[seq |-> Len(hbLog) + 1, create |-> create,
                session |-> session_id_]}
         /\ hbLog' = Append(hbLog, create)
         /\ UNCHANGED crashed

\* Start(), lines 47-58: create the transport handle.
StartCreateProxy ==
  /\ crashed = "no"
  /\ lifePc = "new"
  /\ proxy_' = "live"
  /\ lifePc' = "start_hb"
  /\ UNCHANGED <<controller_, session_id_, heartbeat_poller_,
                 heartbeat_running_, heartbeat_controller_, heartbeat_resp_,
                 create_session_promise_, startResult, tickPc, handler,
                 hbInFlight, hbLog, createOutcome, calls, crashed>>

\* LOG(DFATAL), line 76: fatal in a debug build, an error line in a
\* release build.
DFatalOutcomes == {"logged", "aborted"}

\* Start(), lines 60-61: take the future and call Heartbeat(true) on the
\* caller's thread (compare-exchange of lines 73-79, then the send).
StartHeartbeat ==
  /\ crashed = "no"
  /\ lifePc = "start_hb"
  /\ lifePc' = "start_wait"
  /\ IF heartbeat_running_
       THEN /\ \E o \in DFatalOutcomes :
                 crashed' = IF o = "aborted" THEN "dfatal" ELSE "no"
            /\ UNCHANGED <<heartbeat_running_, heartbeat_controller_,
                           hbInFlight, hbLog>>
       ELSE /\ heartbeat_running_' = TRUE
            /\ HeartbeatSend(TRUE)
  /\ UNCHANGED <<proxy_, controller_, session_id_, heartbeat_poller_,
                 heartbeat_resp_, create_session_promise_, startResult,
                 tickPc, handler, createOutcome, calls>>

\* StartReturn without RETURN_NOT_OK: the poller is armed and OK returned
\* whatever the future holds.
StartReturn_StatusDropped ==
  /\ crashed = "no"
  /\ lifePc = "start_wait"
  /\ create_session_promise_ # "unset"
  /\ startResult' = OK
  /\ heartbeat_poller_' = PollerStart
  /\ lifePc' = "started"
  /\ UNCHANGED <<proxy_, controller_, session_id_, heartbeat_running_,
                 heartbeat_controller_, heartbeat_resp_,
                 create_session_promise_, tickPc, handler, hbInFlight, hbLog,
                 createOutcome, calls, crashed>>

\* StartReturn with the transport handle released when Start() fails.
StartReturn_ReleasesOnFailure ==
  /\ crashed = "no"
  /\ lifePc = "start_wait"
  /\ create_session_promise_ # "unset"
  /\ startResult' = create_session_promise_
  /\ heartbeat_poller_' =
       IF create_session_promise_ = OK THEN PollerStart ELSE heartbeat_poller_
  /\ proxy_' = IF create_session_promise_ = OK THEN proxy_ ELSE "null"
  /\ lifePc' = "started"
  /\ UNCHANGED <<controller_, session_id_, heartbeat_running_,
                 heartbeat_controller_, heartbeat_resp_,
                 create_session_promise_, tickPc, handler, hbInFlight, hbLog,
                 createOutcome, calls, crashed>>

\* StartReturn without future.get(): Start() goes on while the promise is
\* still unset, as if the handshake had succeeded.
StartReturn_NoWait ==
  /\ crashed = "no"
  /\ lifePc = "start_wait"
  /\ startResult' =
       IF create_session_promise_ = "unset" THEN OK ELSE create_session_promise_
  /\ heartbeat_poller_' =
       IF startResult' = OK THEN PollerStart ELSE heartbeat_poller_
  /\ lifePc' = "started"
  /\ UNCHANGED <<proxy_, controller_, session_id_, heartbeat_running_,
                 heartbeat_controller_, heartbeat_resp_,
                 create_session_promise_, tickPc, handler, hbInFlight, hbLog,
                 createOutcome, calls, crashed>>

\* Start(), lines 62-64: future.get() returns once the promise is set;
\* a failure is returned as it is, success arms the poller.
StartReturn ==
  /\ crashed = "no"
  /\ lifePc = "start_wait"
  /\ create_session_promise_ # "unset"
  /\ startResult' = create_session_promise_
  /\ heartbeat_poller_' =
       IF create_session_promise_ = OK THEN PollerStart ELSE heartbeat_poller_
  /\ lifePc' = "started"
  /\ UNCHANGED <<proxy_, controller_, session_id_, heartbeat_running_,
                 heartbeat_controller_, heartbeat_resp_,
                 create_session_promise_, tickPc, handler, hbInFlight, hbLog,
                 createOutcome, calls, crashed>>

\* ShutdownStop without the call of heartbeat_poller_.Shutdown().
ShutdownStop_PollerLeftRunning ==
  /\ crashed = "no"
  /\ lifePc \in {"new", "started"}
  /\ lifePc' = "shutdown_release"
  /\ UNCHANGED <<proxy_, controller_, session_id_, heartbeat_poller_,
                 heartbeat_running_, heartbeat_controller_, heartbeat_resp_,
                 create_session_promise_, startResult, tickPc, handler,
                 hbInFlight, hbLog, createOutcome, calls, crashed>>

\* Shutdown(), line 68: heartbeat_poller_.Shutdown() blocks until the
\* poller's callback is not running.
ShutdownStop ==
  /\ crashed = "no"
  /\ lifePc \in {"new", "started"}
  /\ PollerShutdownReturns
  /\ heartbeat_poller_' = PollerShutdown
  /\ lifePc' = "shutdown_release"
  /\ UNCHANGED <<proxy_, controller_, session_id_, heartbeat_running_,
                 heartbeat_controller_, heartbeat_resp_,
                 create_session_promise_, startResult, tickPc, handler,
                 hbInFlight, hbLog, createOutcome, calls, crashed>>

\* ShutdownRelease without the assignment proxy_ = nullptr.
ShutdownRelease_HandleKept ==
  /\ crashed = "no"
  /\ lifePc = "shutdown_release"
  /\ lifePc' = "closed"
  /\ UNCHANGED <<proxy_, controller_, session_id_, heartbeat_poller_,
                 heartbeat_running_, heartbeat_controller_, heartbeat_resp_,
                 create_session_promise_, startResult, tickPc, handler,
                 hbInFlight, hbLog, createOutcome, calls, crashed>>

\* Shutdown(), line 69: proxy_ = nullptr.
ShutdownRelease ==
  /\ crashed = "no"
  /\ lifePc = "shutdown_release"
  /\ proxy_' = "null"
  /\ lifePc' = "closed"
  /\ UNCHANGED <<controller_, session_id_, heartbeat_poller_,
                 heartbeat_running_, heartbeat_controller_, heartbeat_resp_,
                 create_session_promise_, startResult, tickPc, handler,
                 hbInFlight, hbLog, createOutcome, calls, crashed>>

\* ---------------------------------------------------------- the timer tick
\* The poller's callback bound as Heartbeat(true).
PollerCallbackCreate_True == TRUE

\* Impl(), line 38: the poller's callback is Heartbeat(false).
PollerCallbackCreate == FALSE

\* The armed poller invokes its callback.
TickFire ==
  /\ crashed = "no"
  /\ heartbeat_poller_ = "armed"
  /\ tickPc = "idle"
  /\ Len(hbLog) < MaxHeartbeats
  /\ tickPc' = "cas"
  /\ UNCHANGED <<proxy_, controller_, session_id_, heartbeat_poller_,
                 heartbeat_running_, heartbeat_controller_, heartbeat_resp_,
                 create_session_promise_, lifePc, startResult, handler,
                 hbInFlight, hbLog, createOutcome, calls, crashed>>

\* TickCAS with the compare-exchange replaced by a plain store of true.
TickCAS_BlindStore ==
  /\ crashed = "no"
  /\ tickPc = "cas"
  /\ heartbeat_running_' = TRUE
  /\ tickPc' = "send"
  /\ UNCHANGED <<proxy_, controller_, session_id_, heartbeat_poller_,
                 heartbeat_controller_, heartbeat_resp_,
                 create_session_promise_, lifePc, startResult, handler,
                 hbInFlight, hbLog, createOutcome, calls, crashed>>

\* TickCAS with heartbeat_controller_ reset before the flag is examined.
TickCAS_ResetsContextFirst ==
  /\ crashed = "no"
  /\ tickPc = "cas"
  /\ heartbeat_controller_' = FreshController
  /\ IF heartbeat_running_
       THEN /\ \E o \in DFatalOutcomes :
                 crashed' = IF o = "aborted" THEN "dfatal" ELSE "no"
            /\ tickPc' = "idle"
            /\ UNCHANGED heartbeat_running_
       ELSE /\ heartbeat_running_' = TRUE
            /\ tickPc' = "send"
            /\ UNCHANGED crashed
  /\ UNCHANGED <<proxy_, controller_, session_id_, heartbeat_poller_,
                 heartbeat_resp_, create_session_promise_, lifePc,
                 startResult, handler, hbInFlight, hbLog, createOutcome,
                 calls>>

\* Heartbeat(), lines 73-79: compare_exchange_strong(false -> true); when a
\* heartbeat is still running, LOG(DFATAL) and return.
TickCAS ==
  /\ crashed = "no"
  /\ tickPc = "cas"
  /\ IF heartbeat_running_
       THEN /\ \E o \in DFatalOutcomes :
                 crashed' = IF o = "aborted" THEN "dfatal" ELSE "no"
            /\ tickPc' = "idle"
            /\ UNCHANGED heartbeat_running_
       ELSE /\ heartbeat_running_' = TRUE
            /\ tickPc' = "send"
            /\ UNCHANGED crashed
  /\ UNCHANGED <<proxy_, controller_, session_id_, heartbeat_poller_,
                 heartbeat_controller_, heartbeat_resp_,
                 create_session_promise_, lifePc, startResult, handler,
                 hbInFlight, hbLog, createOutcome, calls>>

\* Heartbeat(), lines 80-84 on the timer thread; the callback then returns.
TickSend ==
  /\ crashed = "no"
  /\ tickPc = "send"
  /\ HeartbeatSend(PollerCallbackCreate)
  /\ tickPc' = "idle"
  /\ UNCHANGED <<proxy_, controller_, session_id_, heartbeat_poller_,
                 heartbeat_running_, heartbeat_resp_,
                 create_session_promise_, lifePc, startResult, handler,
                 createOutcome, calls>>

\* ------------------------------------------- the heartbeat's completion
\* The transport finishes a heartbeat round trip: with transport status OK
\* the response is parsed into heartbeat_resp_, on a transport failure the
\* buffer is left as it was; then the completion callback is invoked.
HeartbeatComplete ==
  /\ crashed = "no"
  /\ handler.pc = "idle"
  /\ \E r \in hbInFlight, t \in {OK} \cup TransportErrors, p \in RespParsed :
       /\ t # OK => p = RespNoStatus
       /\ hbInFlight' = hbInFlight \ {r}
       /\ heartbeat_resp_' = IF t = OK THEN p ELSE heartbeat_resp_
       /\ handler' = [pc |-> "read", create |-> r.create, status |-> "none"]
       /\ createOutcome' =
            IF r.create
              THEN [transport |-> t, resp |-> heartbeat_resp_']
              ELSE createOutcome
  /\ UNCHANGED <<proxy_, controller_, session_id_, heartbeat_poller_,
                 heartbeat_running_, heartbeat_controller_,
                 create_session_promise_, lifePc, startResult, tickPc, hbLog,
                 calls, crashed>>

\* HandlerRead with the flag cleared before the response is read.
HandlerRead_ClearsFirst ==
  /\ crashed = "no"
  /\ handler.pc = "read"
  /\ heartbeat_running_' = FALSE
  /\ handler' = [handler EXCEPT !.pc = "clear",
                                !.status = ResponseStatus(heartbeat_resp_)]
  /\ UNCHANGED <<proxy_, controller_, session_id_, heartbeat_poller_,
                 heartbeat_controller_, heartbeat_resp_,
                 create_session_promise_, lifePc, startResult, tickPc,
                 hbInFlight, hbLog, createOutcome, calls, crashed>>

\* The completion lambda, line 86: status = ResponseStatus(heartbeat_resp_).
HandlerRead ==
  /\ crashed = "no"
  /\ handler.pc = "read"
  /\ handler' = [handler EXCEPT !.pc = "clear",
                                !.status = ResponseStatus(heartbeat_resp_)]
  /\ UNCHANGED <<proxy_, controller_, session_id_, heartbeat_poller_,
                 heartbeat_running_, heartbeat_controller_, heartbeat_resp_,
                 create_session_promise_, lifePc, startResult, tickPc,
                 hbInFlight, hbLog, createOutcome, calls, crashed>>

\* HandlerClear with the flag cleared only after a successful heartbeat.
HandlerClear_OnlyOnSuccess ==
  /\ crashed = "no"
  /\ handler.pc = "clear"
  /\ heartbeat_running_' =
       IF handler.status = OK THEN FALSE ELSE heartbeat_running_
  /\ handler' = [handler EXCEPT !.pc = "settle"]
  /\ UNCHANGED <<proxy_, controller_, session_id_, heartbeat_poller_,
                 heartbeat_controller_, heartbeat_resp_,
                 create_session_promise_, lifePc, startResult, tickPc,
                 hbInFlight, hbLog, createOutcome, calls, crashed>>

\* The completion lambda, line 87: heartbeat_running_ = false.
HandlerClear ==
  /\ crashed = "no"
  /\ handler.pc = "clear"
  /\ heartbeat_running_' = FALSE
  /\ handler' = [handler EXCEPT !.pc = "settle"]
  /\ UNCHANGED <<proxy_, controller_, session_id_, heartbeat_poller_,
                 heartbeat_controller_, heartbeat_resp_,
                 create_session_promise_, lifePc, startResult, tickPc,
                 hbInFlight, hbLog, createOutcome, calls, crashed>>

\* HandlerSettle with the promise set by the handler of every heartbeat.
HandlerSettle_EveryHeartbeat ==
  /\ crashed = "no"
  /\ handler.pc = "settle"
  /\ handler' = IdleHandler
  /\ create_session_promise_' = handler.status
  /\ UNCHANGED <<proxy_, controller_, session_id_, heartbeat_poller_,
                 heartbeat_running_, heartbeat_controller_, heartbeat_resp_,
                 lifePc, startResult, tickPc, hbInFlight, hbLog,
                 createOutcome, calls, crashed>>

\* The completion lambda, lines 88-92: the creation heartbeat sets the
\* promise (a second set_value throws std::future_error out of the
\* callback); any other heartbeat only logs a failure.
HandlerSettle ==
  /\ crashed = "no"
  /\ handler.pc = "settle"
  /\ handler' = IdleHandler
  /\ IF handler.create
       THEN IF create_session_promise_ = "unset"
              THEN /\ create_session_promise_' = handler.status
                   /\ UNCHANGED crashed
              ELSE /\ crashed' = "promise_already_satisfied"
                   /\ UNCHANGED create_session_promise_
       ELSE UNCHANGED <<create_session_promise_, crashed>>
  /\ UNCHANGED <<proxy_, controller_, session_id_, heartbeat_poller_,
                 heartbeat_running_, heartbeat_controller_, heartbeat_resp_,
                 lifePc, startResult, tickPc, hbInFlight, hbLog,
                 createOutcome, calls>>

\* ----------------------------------------------------------- business calls
\* RequestSessionId with CreateTable's set_session_id left out.
RequestSessionId_CreateTableUnstamped(op) ==
  IF op \in {"AlterTable", "CreateDatabase"}
    THEN session_id_
    ELSE NoSessionId

\* req->set_session_id(session_id_), lines 98, 107, 115; the requests of
\* OpenTable, GetDatabaseInfo, ReserveOids and IsInitDbDone (lines 122-123,
\* 141-142, 152-155, 165) are built without it.
RequestSessionId(op) ==
  IF op \in {"AlterTable", "CreateDatabase", "CreateTable"}
    THEN session_id_
    ELSE NoSessionId

\* CallResult without RETURN_NOT_OK around the proxy call: the transport's
\* status is dropped and the response alone decides.
CallResult_TransportIgnored(op, transport, resp, convert) ==
  IF ResponseStatus(resp) # OK THEN ResponseStatus(resp)
  ELSE IF op = "OpenTable" THEN convert
  ELSE OK

\* The value a business operation returns: RETURN_NOT_OK of the transport's
\* status, then of ResponseStatus(resp); OpenTable also returns a failure of
\* CreateTableInfoFromTableSchemaResp (line 130).
CallResult(op, transport, resp, convert) ==
  IF transport # OK THEN transport
  ELSE IF ResponseStatus(resp) # OK THEN ResponseStatus(resp)
  ELSE IF op = "OpenTable" THEN convert
  ELSE OK

\* proxy_->Op(...) on a null handle is undefined: the process faults, or
\* the call comes back with some status and nothing was sent.
NullProxyOutcomes == {"fault"} \cup Statuses

\* A business operation up to the dispatch of its request: stamp the
\* request, PrepareAdminController(deadline), proxy_->Op(req, &resp, ctx).
\* The operations without a deadline parameter pass none.
BusinessDispatch(c) ==
  /\ crashed = "no"
  /\ calls[c].pc \in {"idle", "returned"}
  /\ \E op \in Ops, d \in Deadlines :
       /\ op \notin DeadlineOps => d = CoarseTimePointZero
       /\ controller_' = PrepareAdminController(d)
       /\ IF proxy_ = "null"
            THEN \E o \in NullProxyOutcomes :
                   /\ crashed' = IF o = "fault" THEN "call_null_proxy" ELSE "no"
                   /\ calls' = [calls EXCEPT ![c] =
                        [IdleCall EXCEPT !.pc = "returned", !.op = op,
                           !.session = RequestSessionId(op),
                           !.result = IF o = "fault" THEN "none" ELSE o]]
            ELSE /\ calls' = [calls EXCEPT ![c] =
                        [IdleCall EXCEPT !.pc = "inflight", !.op = op,
                           !.deadline = d,
                           !.session = RequestSessionId(op),
                           !.sent = 1]]
                 /\ UNCHANGED crashed
  /\ UNCHANGED <<proxy_, session_id_, heartbeat_poller_, heartbeat_running_,
                 heartbeat_controller_, heartbeat_resp_,
                 create_session_promise_, lifePc, startResult, tickPc,
                 handler, hbInFlight, hbLog, createOutcome>>

\* The synchronous call comes back: the transport failed (resp untouched)
\* or it parsed a response; the operation returns CallResult.
BusinessReturn(c) ==
  /\ crashed = "no"
  /\ calls[c].pc = "inflight"
  /\ \E t \in {OK} \cup TransportErrors, p \in RespParsed,
        v \in ConvertStatuses :
       /\ t # OK => p = RespNoStatus
       /\ (calls[c].op # "OpenTable" \/ t # OK \/ p # RespNoStatus) => v = OK
       /\ LET resp == IF t = OK THEN p ELSE RespUnpopulated
          IN calls' = [calls EXCEPT ![c] =
               [@ EXCEPT !.pc = "returned", !.deadline = CoarseTimePointZero,
                         !.transport = t, !.resp = resp,
                         !.result = CallResult(calls[c].op, t, resp, v)]]
  /\ UNCHANGED <<proxy_, controller_, session_id_, heartbeat_poller_,
                 heartbeat_running_, heartbeat_controller_, heartbeat_resp_,
                 create_session_promise_, lifePc, startResult, tickPc,
                 handler, hbInFlight, hbLog, createOutcome, crashed>>

\* -------------------------------------------------------------- destructor
\* ~Impl(), lines 40-42, run by the lifecycle caller outside Start() and
\* Shutdown(): CHECK(!proxy_) aborts the process when the handle is set.
Destroy ==
  /\ crashed = "no"
  /\ lifePc \in {"new", "started", "closed"}
  /\ IF proxy_ # "null"
       THEN /\ crashed' = "check_failed"
            /\ UNCHANGED lifePc
       ELSE /\ lifePc' = "destroyed"
            /\ UNCHANGED crashed
  /\ UNCHANGED <<proxy_, controller_, session_id_, heartbeat_poller_,
                 heartbeat_running_, heartbeat_controller_, heartbeat_resp_,
                 create_session_promise_, startResult, tickPc, handler,
                 hbInFlight, hbLog, createOutcome, calls>>

\* A heartbeat completion still pending when the object was destroyed runs
\* its lambda on the destroyed Impl (the lambda captures this, line 85):
\* undefined; the process may fault here or go on as if nothing happened.
HandlerAfterDestroy ==
  /\ crashed = "no"
  /\ lifePc = "destroyed"
  /\ hbInFlight # {} \/ handler.pc # "idle"
  /\ crashed' = "handler_after_destroy"
  /\ UNCHANGED <<proxy_, controller_, session_id_, heartbeat_poller_,
                 heartbeat_running_, heartbeat_controller_, heartbeat_resp_,
                 create_session_promise_, lifePc, startResult, tickPc,
                 handler, hbInFlight, hbLog, createOutcome, calls>>

\* -------------------------------------------------------------- the period
\* uint64_t values as four 16-bit limbs, most significant first.
LimbBase == 2^16
ToU64(n) == <<0, 0, n \div LimbBase, n % LimbBase>>
U64Zero == <<0, 0, 0, 0>>
\* a - b in uint64_t arithmetic (modulo 2^64).
U64Sub(a, b) ==
  LET d4 == a[4] - b[4]
      b4 == IF d4 < 0 THEN 1 ELSE 0
      d3 == a[3] - b[3] - b4
      b3 == IF d3 < 0 THEN 1 ELSE 0
      d2 == a[2] - b[2] - b3
      b2 == IF d2 < 0 THEN 1 ELSE 0
      d1 == a[1] - b[1] - b2
  IN <<d1 % LimbBase, d2 % LimbBase, d3 % LimbBase, d4 % LimbBase>>
\* a < b as uint64_t values.
U64Less(a, b) ==
  \E i \in 1..4 : a[i] < b[i] /\ \A j \in 1..(i - 1) : a[j] = b[j]

\* The 1s of line 63, in ms.
SafetyMarginMs == 1000

\* Line 63: FLAGS_pg_client_heartbeat_interval_ms * 1ms - 1s, a duration
\* counted in uint64_t milliseconds.
PollerPeriod(interval) == U64Sub(ToU64(interval), ToU64(SafetyMarginMs))

\* Start(), line 63: the period heartbeat_poller_.Start is given, when this
\* step arms the poller.
ArmedPeriod ==
  IF heartbeat_poller_' = "armed" /\ heartbeat_poller_ # "armed"
    THEN PollerPeriod(interval_ms)
    ELSE period_ms

\* ------------------------------------------------------------ specification
\* A step that does not look at the clock or the configuration.
Untimed(A) == A /\ UNCHANGED auxVars

\* Start(), lines 62-64, with the period of line 63.
StartReturnArm ==
  /\ StartReturn
  /\ period_ms' = ArmedPeriod
  /\ UNCHANGED <<interval_ms, now, hbIssuedAt, pollScheduledAt>>

Next ==
  \/ Untimed(StartCreateProxy)
  \/ Untimed(StartHeartbeat)
  \/ StartReturnArm
  \/ Untimed(ShutdownStop)
  \/ Untimed(ShutdownRelease)
  \/ Untimed(Destroy)
  \/ Untimed(HandlerAfterDestroy)
  \/ Untimed(TickFire)
  \/ Untimed(TickCAS)
  \/ Untimed(TickSend)
  \/ Untimed(HeartbeatComplete)
  \/ Untimed(HandlerRead)
  \/ Untimed(HandlerClear)
  \/ Untimed(HandlerSettle)
  \/ \E c \in Callers : Untimed(BusinessDispatch(c))
  \/ \E c \in Callers : Untimed(BusinessReturn(c))

Spec == Init /\ [][Next]_vars

TypeOK ==
  /\ proxy_ \in {"null", "live"}
  /\ session_id_ \in SessionIds
  /\ heartbeat_poller_ \in {"idle", "armed", "closed"}
  /\ heartbeat_running_ \in BOOLEAN
  /\ heartbeat_resp_ \in RespValues
  /\ create_session_promise_ \in {"unset"} \cup Statuses
  /\ lifePc \in {"new", "start_hb", "start_wait", "started",
                 "shutdown_release", "closed", "destroyed"}
  /\ startResult \in {"none"} \cup Statuses
  /\ tickPc \in {"idle", "cas", "send"}
  /\ handler.pc \in {"idle", "read", "clear", "settle"}
  /\ Len(hbLog) <= MaxHeartbeats
  /\ \A c \in DOMAIN calls : calls[c].pc \in {"idle", "inflight", "returned"}
  /\ interval_ms \in Nat \ {0}
  /\ \/ period_ms = NoPeriod
     \/ /\ Len(period_ms) = 4
        /\ \A i \in 1..4 : period_ms[i] \in 0..(LimbBase - 1)
  /\ now \in Nat
  /\ hbIssuedAt \in 0..now
  /\ pollScheduledAt \in 0..now

\* ------------------------------------------------------ steps claims name
\* Caller c's request is handed to the transport in this step.
Dispatched(c) == calls[c].pc # "inflight" /\ calls'[c].pc = "inflight"
\* A heartbeat request is handed to the transport in this step.
HeartbeatDispatched == Len(hbLog') > Len(hbLog)
\* Heartbeats sent whose completion handler has not yet cleared the flag.
HeartbeatsOutstanding ==
  Cardinality(hbInFlight) + (IF handler.pc \in {"read", "clear"} THEN 1 ELSE 0)

\* ------------------------------------------------------------------- C1
\* C1: in every reachable state at most one heartbeat request is in flight
\* (sent, and its completion handler has not yet cleared the
\* outstanding flag), whatever the interleaving of Start's creation
\* heartbeat, the timer ticks and the completion handlers.
C1_SingleFlight == HeartbeatsOutstanding <= 1

\* A tick has fired while a timer heartbeat is still held by the transport.
C1_Witness ==
  /\ tickPc = "cas"
  /\ hbInFlight # {}
  /\ heartbeat_running_
  /\ Len(hbLog) >= 2

\* ------------------------------------------------------------------- C2
\* C2: once Shutdown() has stopped the poller (and so after it returned) no
\* timer-driven Heartbeat invocation is running or starts, and a Heartbeat
\* invocation never finds the transport handle released.
C2_NoTickAfterShutdown ==
  /\ lifePc \in {"shutdown_release", "closed"} => tickPc = "idle"
  /\ tickPc # "idle" => proxy_ = "live"
  /\ crashed # "heartbeat_null_proxy"

\* Shutdown() returned right after a tick sent a heartbeat.
C2_Witness ==
  /\ lifePc = "closed"
  /\ proxy_ = "null"
  /\ startResult = OK
  /\ Len(hbLog) >= 2
  /\ hbInFlight # {}

\* ------------------------------------------------------------------- C3
\* C3: when Shutdown() has released the transport handle no heartbeat is
\* outstanding and no heartbeat completion handler runs or is still to run.
C3_ShutdownDrainsHeartbeat ==
  (lifePc = "closed" /\ startResult # "none") =>
    (hbInFlight = {} /\ handler.pc = "idle" /\ ~heartbeat_running_)

\* ------------------------------------------------------------------- C4
\* C4: Start() returns the status the creation heartbeat's response carries
\* (success exactly when that status is OK), and after a failure the
\* poller is not armed.
C4_StartResult ==
  startResult # "none" =>
    /\ createOutcome.transport # "none"
    /\ (startResult = OK) <=> (createOutcome.resp \notin RemoteErrors)
    /\ startResult # OK => startResult = createOutcome.resp
    /\ startResult # OK => heartbeat_poller_ # "armed"

\* Start() has returned the remote side's refusal.
C4_Witness ==
  /\ lifePc = "started"
  /\ startResult = "AlreadyPresent"
  /\ createOutcome.resp = "AlreadyPresent"
  /\ heartbeat_poller_ = "idle"

C6_NoRequestWhileUninitializedOrClosed ==
  [][((\E c \in Callers : Dispatched(c)) \/ HeartbeatDispatched)
       => SessionState \notin {"Uninitialized", "Closed"}]_vars

\* ------------------------------------------------------------------- C7
\* C7 as claimed: a call of an operation that takes a deadline is bounded by
\* exactly the deadline passed, whatever its value; a call of an
\* operation that takes none is bounded by exactly the default timeout.
C7_AnyDeadlineHonoured ==
  [][\A c \in Callers :
       Dispatched(c) =>
         controller_' =
           IF calls'[c].op \in DeadlineOps
             THEN [kind |-> "deadline", value |-> calls'[c].deadline]
             ELSE [kind |-> "timeout",
                   value |-> FLAGS_yb_client_admin_operation_timeout_sec]]_vars

\* C7 as amended: a deadline other than the default-constructed time point
\* bounds the call exactly; with no deadline, or with the
\* default-constructed time point passed as the deadline, the call is
\* bounded by exactly the default timeout; no call context is unbounded.
C7_DeadlineOrDefault ==
  [][\A c \in Callers :
       Dispatched(c) =>
         /\ controller_'.kind # "none"
         /\ controller_' =
              IF calls'[c].deadline # CoarseTimePointZero
                THEN [kind |-> "deadline", value |-> calls'[c].deadline]
                ELSE [kind |-> "timeout",
                      value |-> FLAGS_yb_client_admin_operation_timeout_sec]
         /\ calls'[c].op \notin DeadlineOps =>
              calls'[c].deadline = CoarseTimePointZero]_vars

\* An AlterTable call with an explicit deadline is in flight, bounded by it.
C7_Witness ==
  \E c \in Callers :
    /\ calls[c].pc = "inflight"
    /\ calls[c].op = "AlterTable"
    /\ calls[c].deadline = 7
    /\ controller_ = [kind |-> "deadline", value |-> 7]

C9_ShutdownSafe ==
  /\ [](lifePc = "closed" =>
          /\ proxy_ = "null"
          /\ heartbeat_poller_ = "closed"
          /\ tickPc = "idle")
  /\ [][(lifePc \in {"new", "started", "shutdown_release"} /\ lifePc' # lifePc
           /\ lifePc' \in {"shutdown_release", "closed"})
         => (hbLog' = hbLog /\ hbInFlight' = hbInFlight /\ crashed' = "no")]_vars

\* Shutdown() has returned after a Start() that failed.
C9_Witness ==
  /\ lifePc = "closed"
  /\ startResult \in RemoteErrors
  /\ proxy_ = "null"
  /\ crashed = "no"

\* ------------------------------------------------------------------ C10
\* C10: the first heartbeat sent is the creation heartbeat of Start(), no
\* other heartbeat has the creation flag, Start() has sent it once it
\* waits for the handshake, and a heartbeat is sent only when every
\* earlier one has completed.
C10_CreationHeartbeatFirst ==
  /\ [](/\ \A i \in 1..Len(hbLog) : hbLog[i] <=> (i = 1)
        /\ (lifePc = "start_wait" \/ startResult # "none") => Len(hbLog) >= 1)
  /\ [][HeartbeatDispatched => HeartbeatsOutstanding = 0]_vars

\* The creation heartbeat and two timer heartbeats have been sent.
C10_Witness ==
  /\ Len(hbLog) = 3
  /\ hbLog[1]
  /\ ~hbLog[2]
  /\ ~hbLog[3]

\* ------------------------------------------------------------------ C14
\* C14: the promise of the creation handshake is set only by the completion
\* handler of the creation heartbeat, from the unset state, to the status
\* read from that heartbeat's response; once set it never changes, and
\* set_value is never called on a promise already satisfied.
C14_PromiseSetOnce ==
  /\ [](crashed # "promise_already_satisfied")
  /\ [][create_session_promise_' # create_session_promise_ =>
          /\ create_session_promise_ = "unset"
          /\ handler.pc = "settle"
          /\ handler.create
          /\ create_session_promise_' = ResponseStatus(createOutcome.resp)]_vars

\* The promise was set to OK, and a later timer heartbeat failed and its
\* handler has finished.
C14_Witness ==
  /\ create_session_promise_ = OK
  /\ Len(hbLog) >= 2
  /\ hbInFlight = {}
  /\ handler.pc = "idle"
  /\ heartbeat_resp_ \in RemoteErrors

\* ------------------------------------------------------------------ C13
\* A step of the completion handler of a timer (non-creation) heartbeat.
TimerHandlerStep ==
  /\ handler.pc # "idle"
  /\ ~handler.create
  /\ handler' # handler

\* C13: the completion handler clears the outstanding flag after a failed
\* heartbeat as after a successful one; the handler of a timer heartbeat
\* leaves the poller, the promise, Start()'s result, the business calls and
\* the process alone; so a tick that runs after every earlier heartbeat has
\* completed acquires the flag and sends a heartbeat.
C13_FailedHeartbeatAbsorbed ==
  /\ []((hbInFlight = {} /\ handler.pc \in {"settle", "idle"}
           /\ tickPc # "send" /\ crashed = "no")
          => ~heartbeat_running_)
  /\ [][(handler.pc = "clear" /\ handler'.pc # "clear")
          => ~heartbeat_running_']_vars
  /\ [][TimerHandlerStep
          => UNCHANGED <<heartbeat_poller_, create_session_promise_,
                         startResult, lifePc, proxy_, calls, crashed>>]_vars
  /\ [][(tickPc = "cas" /\ tickPc' # "cas" /\ HeartbeatsOutstanding = 0)
          => (tickPc' = "send" /\ heartbeat_running_')]_vars
  /\ [][(tickPc = "send" /\ tickPc' # "send") => HeartbeatDispatched]_vars

\* The second heartbeat failed, and the tick after it has sent the third.
C13_Witness ==
  /\ Len(hbLog) = 3
  /\ hbInFlight # {}
  /\ heartbeat_resp_ \in RemoteErrors
  /\ startResult = OK
  /\ heartbeat_poller_ = "armed"

\* ------------------------------------------------------------------ C19
\* C19: heartbeat_controller_ is reset, and a request handed to the
\* transport, only by the Heartbeat invocation holding heartbeat_running_
\* and with no earlier heartbeat in flight or in its handler before the
\* flag's clearing; heartbeat_resp_ is written only by the completion of
\* the one heartbeat in flight; and the handler holds the flag until it
\* has read the response.
C19_HeartbeatBuffersExclusive ==
  /\ [](handler.pc \in {"read", "clear"} => heartbeat_running_)
  /\ [](hbInFlight # {} => heartbeat_running_)
  /\ [][(heartbeat_controller_' # heartbeat_controller_ \/ HeartbeatDispatched)
          => (heartbeat_running_' /\ HeartbeatsOutstanding = 0)]_vars
  /\ [][heartbeat_resp_' # heartbeat_resp_
          => (Cardinality(hbInFlight) = 1 /\ hbInFlight' = {}
              /\ handler.pc = "idle" /\ handler'.pc = "read")]_vars
  /\ [][(handler.pc = "read" /\ handler'.pc # "read")
          => (heartbeat_running_'
              /\ handler'.status = ResponseStatus(heartbeat_resp_))]_vars

\* A tick is rejected while the handler of the previous heartbeat has read
\* a failed response and not yet cleared the flag.
C19_Witness ==
  /\ tickPc = "cas"
  /\ handler.pc = "clear"
  /\ handler.status \in RemoteErrors
  /\ heartbeat_running_
  /\ Len(hbLog) >= 2

\* ------------------------------------------------------------------ C12
\* A Heartbeat invocation finds heartbeat_running_ set and leaves Heartbeat.
OverlapStep ==
  /\ tickPc = "cas"
  /\ heartbeat_running_
  /\ tickPc' # "cas"

\* What an overlap-rejected Heartbeat leaves alone: nothing is sent, the
\* flag stays set, the context, the buffer, the promise, the poller and
\* every caller's result stay as they were.
OverlapFrame ==
  /\ heartbeat_running_'
  /\ UNCHANGED <<hbInFlight, hbLog, heartbeat_controller_, heartbeat_resp_,
                 create_session_promise_, heartbeat_poller_, startResult,
                 lifePc, proxy_, handler, calls, controller_>>

\* C12 as stated: the overlap-rejected Heartbeat returns, and everything
\* else is unchanged.
C12_OverlapReturns ==
  [][OverlapStep => (OverlapFrame /\ tickPc' = "idle" /\ crashed' = "no")]_vars

\* C12, amended: the overlap-rejected Heartbeat sends nothing and leaves
\* everything else unchanged; it returns where LOG(DFATAL) is not fatal and
\* aborts the process where it is, and nothing else raises that abort.
C12_OverlapSendsNothing ==
  /\ [][OverlapStep
          => (OverlapFrame /\ tickPc' = "idle"
              /\ crashed' \in {"no", "dfatal"})]_vars
  /\ [][(crashed' = "dfatal" /\ crashed # "dfatal") => OverlapStep]_vars

\* The second heartbeat is still held by the transport and the tick that
\* found it outstanding has ended in LOG(DFATAL)'s abort.
C12_Witness ==
  /\ crashed = "dfatal"
  /\ hbInFlight # {}
  /\ heartbeat_running_
  /\ heartbeat_poller_ = "armed"
  /\ Len(hbLog) = 2

\* ------------------------------------------------------------------ C16
\* C16: when the creation heartbeat fails in the transport and the response
\* buffer is left unpopulated, Start() returns a failure and does not arm
\* the poller.
C16_TransportFailureSurfaced ==
  (/\ startResult # "none"
   /\ createOutcome.transport \in TransportErrors
   /\ createOutcome.resp = RespUnpopulated)
    => (startResult # OK /\ heartbeat_poller_ # "armed")

\* ------------------------------------------------------------------ C20
\* The destructor runs in this step.
DestroyStep ==
  /\ lifePc \in {"new", "started", "closed"}
  /\ crashed = "no"
  /\ lifePc' = "destroyed" \/ crashed' = "check_failed"

\* C20: CHECK(!proxy_) in the destructor fails exactly when Start() was
\* called (whatever it returned) and Shutdown() was not called after it;
\* a destroyed object has no transport handle.
C20_DestructorCheck ==
  /\ [](lifePc = "destroyed" => proxy_ = "null")
  /\ [][DestroyStep
          => ((crashed' = "check_failed")
                <=> (startResult # "none" /\ lifePc # "closed"))]_vars
  /\ [][(crashed' = "check_failed" /\ crashed # "check_failed")
          => DestroyStep]_vars

\* Start() returned a failure and the object was destroyed without
\* Shutdown(): the destructor's CHECK has failed.
C20_Witness ==
  /\ crashed = "check_failed"
  /\ startResult \in RemoteErrors
  /\ lifePc = "started"
  /\ heartbeat_poller_ = "idle"

\* ------------------------------------------------ Start() under any interval
\* Values of --pg_client_heartbeat_interval_ms: around the 1 s of line 63,
\* the 100 ms of the specification's scenario, and the default.
Intervals == {1, 100, 999, 1000, 1001, 2000, FLAGS_pg_client_heartbeat_interval_ms}

InitStart == InitWith(Callers, Intervals)

\* Start() from construction to its return, with the creation heartbeat's
\* round trip.
NextStart ==
  \/ Untimed(StartCreateProxy)
  \/ Untimed(StartHeartbeat)
  \/ Untimed(HeartbeatComplete)
  \/ Untimed(HandlerRead)
  \/ Untimed(HandlerClear)
  \/ Untimed(HandlerSettle)
  \/ StartReturnArm

SpecStart == InitStart /\ [][NextStart]_vars

\* ------------------------------------------------------------------ C11
\* C11: for every heartbeat interval > 0 the period Start() arms the poller
\* with is strictly positive and strictly smaller than the interval.
C11_PeriodPositiveBelowInterval ==
  period_ms # NoPeriod
    => (U64Less(U64Zero, period_ms) /\ U64Less(period_ms, ToU64(interval_ms)))

\* ------------------------------------------------------------------ C15
\* Start() under scheduling: the thread that called Start() runs, the
\* transport invokes the completion callback of every heartbeat it was
\* handed, and the callback runs to its end.
SpecStartFair ==
  /\ SpecStart
  /\ WF_vars(Untimed(StartHeartbeat))
  /\ WF_vars(Untimed(HeartbeatComplete))
  /\ WF_vars(Untimed(HandlerRead))
  /\ WF_vars(Untimed(HandlerClear))
  /\ WF_vars(Untimed(HandlerSettle))
  /\ WF_vars(StartReturnArm)

\* The completion handler of the creation heartbeat has run to its end.
CreationHandlerDone ==
  /\ createOutcome.transport # "none"
  /\ create_session_promise_ # "unset"
  /\ ~(handler.create /\ handler.pc # "idle")

\* C15: Start() has neither returned nor armed the poller before the
\* completion handler of the creation heartbeat has run, and once Start()
\* is past creating the proxy it eventually returns.
C15_StartWaitsAndReturns ==
  /\ []((startResult # "none" \/ heartbeat_poller_ = "armed")
          => CreationHandlerDone)
  /\ [][(lifePc = "start_wait" /\ lifePc' # "start_wait")
          => CreationHandlerDone]_vars
  /\ (lifePc = "start_hb" ~> (lifePc = "started" /\ startResult # "none"))

\* Start() has returned OK after the creation heartbeat's handler ran, with
\* the poller armed.
C15_Witness ==
  /\ lifePc = "started"
  /\ startResult = OK
  /\ createOutcome.transport = OK
  /\ create_session_promise_ = OK
  /\ heartbeat_poller_ = "armed"
  /\ period_ms # NoPeriod

\* ------------------------------------------- two threads calling at once
\* Two threads issuing business operations on the same client.
TwoCallers == {"c1", "c2"}

InitTwoCallers == InitWith(TwoCallers, {FLAGS_pg_client_heartbeat_interval_ms})

\* The proxy is created; the two threads call business operations, each
\* blocking in its synchronous call until the transport answers.
NextTwoCallers ==
  \/ Untimed(StartCreateProxy)
  \/ \E c \in TwoCallers : Untimed(BusinessDispatch(c))
  \/ \E c \in TwoCallers : Untimed(BusinessReturn(c))

SpecTwoCallers == InitTwoCallers /\ [][NextTwoCallers]_vars

\* ------------------------------------------------------------------ C18
\* C18: while a business call is in flight, no other business call resets
\* or modifies the call context it was dispatched with.
C18_ContextNotShared ==
  [][\A c \in TwoCallers, d \in TwoCallers :
       (c # d /\ calls[c].pc = "inflight" /\ Dispatched(d))
         => controller_' = controller_]_vars

\* ------------------------------------------------------- heartbeats in time
\* The clock advances in steps of ClockStepMs, up to MaxTimeMs.
ClockStepMs == 500
MaxTimeMs == 20000

\* Heartbeat(true) of Start(): PrepareHeartbeatController reads the clock
\* (line 192).
StartHeartbeatAt ==
  /\ StartHeartbeat
  /\ hbIssuedAt' = now
  /\ UNCHANGED <<interval_ms, period_ms, now, pollScheduledAt>>

\* Start(), lines 62-64: the poller is started with the period of line 63
\* and schedules its first invocation that period from now.
StartReturnArmAt ==
  /\ StartReturn
  /\ period_ms' = ArmedPeriod
  /\ pollScheduledAt' = now
  /\ UNCHANGED <<interval_ms, now, hbIssuedAt>>

\* The poller's period has elapsed since it scheduled the invocation.
PollDue ==
  /\ period_ms # NoPeriod
  /\ ~U64Less(ToU64(now - pollScheduledAt), period_ms)

\* rpc::Poller invokes the callback once its period has elapsed.
TickFireDue ==
  /\ PollDue
  /\ TickFire
  /\ UNCHANGED auxVars

\* Heartbeat(false), lines 73-79; when it returns on overlap the poller
\* schedules the next invocation.
TickCASAt ==
  /\ TickCAS
  /\ pollScheduledAt' = IF tickPc' = "idle" THEN now ELSE pollScheduledAt
  /\ UNCHANGED <<interval_ms, period_ms, now, hbIssuedAt>>

\* Heartbeat(false), lines 80-84: PrepareHeartbeatController reads the
\* clock; the callback returns and the poller schedules the next invocation.
TickSendAt ==
  /\ TickSend
  /\ hbIssuedAt' = now
  /\ pollScheduledAt' = now
  /\ UNCHANGED <<interval_ms, period_ms, now>>

\* The deadline PrepareHeartbeatController gave the heartbeat in flight.
HeartbeatDeadline == hbIssuedAt + interval_ms

\* The transport completes the heartbeat no later than its deadline.
HeartbeatCompleteByDeadline ==
  /\ now <= HeartbeatDeadline
  /\ HeartbeatComplete
  /\ UNCHANGED auxVars

\* Time passes; a heartbeat in flight is completed (if only by the
\* transport's timeout) before the clock passes its deadline.
TimeAdvance ==
  /\ crashed = "no"
  /\ now + ClockStepMs <= MaxTimeMs
  /\ hbInFlight # {} => now + ClockStepMs <= HeartbeatDeadline
  /\ now' = now + ClockStepMs
  /\ UNCHANGED <<proxy_, controller_, session_id_, heartbeat_poller_,
                 heartbeat_running_, heartbeat_controller_, heartbeat_resp_,
                 create_session_promise_, lifePc, startResult, tickPc,
                 handler, hbInFlight, hbLog, createOutcome, calls, crashed,
                 interval_ms, period_ms, hbIssuedAt, pollScheduledAt>>

NextTimed ==
  \/ Untimed(StartCreateProxy)
  \/ StartHeartbeatAt
  \/ StartReturnArmAt
  \/ TickFireDue
  \/ TickCASAt
  \/ TickSendAt
  \/ HeartbeatCompleteByDeadline
  \/ Untimed(HandlerRead)
  \/ Untimed(HandlerClear)
  \/ Untimed(HandlerSettle)
  \/ TimeAdvance

SpecTimed == Init /\ [][NextTimed]_vars

\* ------------------------------------------------------------------ C17
\* C17: a tick finds the previous heartbeat still held by the transport
\* only when at least the heartbeat interval has passed since that
\* heartbeat was issued.
C17_OverlapOnlyAfterInterval ==
  [][(OverlapStep /\ hbInFlight # {})
       => now - hbIssuedAt >= interval_ms]_vars

====
